---- MODULE Spec2Model ----
(***************************************************************************)
(* Poor Maps: narration of routing maneuvers (poor/narrative.py) and the   *)
(* asynchronous text-to-speech pipeline behind it (poor/voice.py).         *)
(*                                                                         *)
(* The VoiceDirection object is the record voice_engine.  Its worker       *)
(* thread is the field worker_thread; the two queue.Queue objects are the  *)
(* fields queue_tasks and queue_results; the files of its temporary        *)
(* directory are the field tmpdir.  The main thread (the caller of         *)
(* Narrative and VoiceDirection) is at main.pc = "idle" between calls and  *)
(* at "join" while it is inside threading.Thread.join().                   *)
(***************************************************************************)
EXTENDS Integers, Sequences, FiniteSets, TLC

VARIABLES narrative, voice_engine, main, last, mktemp, failures

vars == <<narrative, voice_engine, main, last, mktemp, failures>>

----------------------------------------------------------------------------
(* Bounds *)

\* Number of synthesis tasks ever put on the task queue in one behaviour.
MaxTasks == 2

\* Number of syntheses that the backend fails in one behaviour.
MaxFailures == 1

\* Prompt texts of the pipeline specification.  A text is the triple
\* <<template, distance, phrase>>; template "" is a plain phrase.
Texts == { <<"", 0, "A">>, <<"", 0, "B">> }

\* Times to destination (seconds) given to make and set_time.
Times == { 0, 700, 1400 }

\* Languages given to set_voice ("None" is Python's None).
Languages == { "None", "en", "fi" }

\* Sexes given to set_voice.
Sexes == { "male" }

----------------------------------------------------------------------------
(* Python values *)

\* None as a file name.
NoFile == 0

\* None as the selected engine (index into engines otherwise).
NoEngine == 0

\* None as a text: the stop task of _clean_worker and the idle worker's cmd.
NoCmd == <<"None", 0, "">>

\* None as VoiceDirection.worker_thread.
NoThread == [pc |-> "None", cmd |-> NoCmd, engine |-> NoEngine]

\* A started threading.Thread running voice_worker with the given engine.
Thread(engine) == [pc |-> "get", cmd |-> NoCmd, engine |-> engine]

\* class Voice
Voice(filename, time) == [filename |-> filename, time |-> time]

\* The empty dict.
EmptyDict == [k \in {} |-> Voice(NoFile, 0)]

Abs(n) == IF n < 0 THEN -n ELSE n

\* The elements of a Python list.
Range(q) == { q[i] : i \in DOMAIN q }

\* The outcome of a call: the object afterwards, the value returned, and
\* whether the call ended by raising (KeyError of cache[cmd]).
Ok(v) == [v |-> v, ret |-> NoFile, exc |-> FALSE]
Return(v, ret) == [v |-> v, ret |-> ret, exc |-> FALSE]
Raise(v) == [v |-> v, ret |-> NoFile, exc |-> TRUE]

----------------------------------------------------------------------------
(* Voice engines, in the order of preference *)

\* Executables that poor.util.requirement_found finds on the device.
Installed == { "espeak" }

\* VoiceDirection.engines: the language tables are cut to the Languages of
\* the model and "de"; command is what set_command settles on.
engines ==
  << [name |-> "mimic", command |-> "mimic",
      languages |-> [en |-> [male |-> "ap", female |-> "slt"]]],
     [name |-> "flite", command |-> "flite",
      languages |-> [en |-> [male |-> "kal16", female |-> "slt"]]],
     [name |-> "pico2wave", command |-> "pico2wave",
      languages |-> [de |-> [female |-> "de-DE"], en |-> [female |-> "en-US"]]],
     [name |-> "espeak", command |-> "espeak",
      languages |-> [de |-> [male |-> "german"], en |-> [male |-> "english-us"]]] >>

\* An engine whose language table has the language, installed or not.
supports_by_table(e, language) == language \in DOMAIN engines[e].languages

\* VoiceEngineBase.supports
supports(e, language) ==
  /\ engines[e].command \in Installed
  /\ language \in DOMAIN engines[e].languages

\* VoiceEngineBase._get_voice_name (voice.py)
_get_voice_name(e, language, sex) ==
  IF language \in DOMAIN engines[e].languages
  THEN LET a == engines[e].languages[language]
       IN IF sex \in DOMAIN a THEN a[sex]
          ELSE a[CHOOSE s \in DOMAIN a : TRUE]
  ELSE "None"

----------------------------------------------------------------------------
(* VoiceDirection *)

\* VoiceDirection.__init__
VoiceDirection ==
  [ engine |-> NoEngine,
    voice_name |-> [e \in DOMAIN engines |-> "None"],
    tmpdir |-> {},
    worker_thread |-> NoThread,
    queue_tasks |-> <<>>,
    queue_results |-> <<>>,
    cache |-> EmptyDict,
    last_cache_check_time |-> 0 ]

\* VoiceDirection.active
active(v) == v.engine # NoEngine

\* VoiceDirection._update_cache: take every result from the result queue;
\* cache[cmd] of a text that has no entry raises KeyError after the result
\* has been taken.
RECURSIVE _update_cache(_)
_update_cache(v) ==
  IF v.queue_results = <<>> THEN Ok(v)
  ELSE LET cmd == Head(v.queue_results)[1]
           fname == Head(v.queue_results)[2]
           w == [v EXCEPT !.queue_results = Tail(@)]
       IN IF cmd \notin DOMAIN w.cache THEN Raise(w)
          ELSE _update_cache([w EXCEPT !.cache[cmd].filename = fname])

\* make that starts a thread and makes the queues for every new text,
\* whether or not there is a worker thread.
make_updated_new_thread(u, cmd, time) ==
  IF u.exc THEN u
  ELSE IF cmd \in DOMAIN u.v.cache
  THEN IF u.v.cache[cmd].time > time
       THEN Ok([u.v EXCEPT !.cache[cmd].time = time])
       ELSE Ok(u.v)
  ELSE LET s == [u.v EXCEPT !.queue_tasks = <<>>,
                            !.queue_results = <<>>,
                            !.worker_thread = Thread(u.v.engine)]
       IN Ok([s EXCEPT
                !.cache = [k \in DOMAIN s.cache \cup {cmd} |->
                             IF k = cmd THEN Voice(NoFile, time)
                             ELSE s.cache[k]],
                !.queue_tasks = Append(@, cmd)])

\* VoiceDirection.make once its _update_cache ended with outcome u.
make_updated(u, cmd, time) ==
  IF u.exc THEN u
  ELSE IF cmd \in DOMAIN u.v.cache
  THEN IF u.v.cache[cmd].time > time
       THEN Ok([u.v EXCEPT !.cache[cmd].time = time])
       ELSE Ok(u.v)
  ELSE LET s == IF u.v.worker_thread = NoThread
                THEN [u.v EXCEPT !.queue_tasks = <<>>,
                                 !.queue_results = <<>>,
                                 !.worker_thread = Thread(u.v.engine)]
                ELSE u.v
       IN Ok([s EXCEPT
                !.cache = [k \in DOMAIN s.cache \cup {cmd} |->
                             IF k = cmd THEN Voice(NoFile, time)
                             ELSE s.cache[k]],
                !.queue_tasks = Append(@, cmd)])

\* VoiceDirection.make
make(v, cmd, time) ==
  IF v.engine = NoEngine THEN Ok(v)
  ELSE make_updated(_update_cache(v), cmd, time)

\* VoiceDirection.get once its _update_cache ended with outcome u.
get_updated(u, cmd) ==
  IF u.exc THEN u
  ELSE IF cmd \in DOMAIN u.v.cache
  THEN Return(u.v, u.v.cache[cmd].filename)
  ELSE Return(u.v, NoFile)

\* VoiceDirection.get
get(v, cmd) == get_updated(_update_cache(v), cmd)

\* The files named by the entries of a cache.
Filenames(cache, keys) == { cache[k].filename : k \in keys } \ {NoFile}

\* set_time that removes the entries 600 or more before the time.
set_time_from_600(v, time) ==
  IF Abs(time - v.last_cache_check_time) < 600 THEN Ok(v)
  ELSE LET keys == { k \in DOMAIN v.cache : v.cache[k].time - time >= 600 }
       IN Ok([v EXCEPT
                !.last_cache_check_time = time,
                !.tmpdir = @ \ Filenames(v.cache, keys),
                !.cache = [k \in DOMAIN v.cache \ keys |-> v.cache[k]]])

\* VoiceDirection.set_time
set_time(v, time) ==
  IF Abs(time - v.last_cache_check_time) < 600 THEN Ok(v)
  ELSE LET keys == { k \in DOMAIN v.cache : v.cache[k].time - time > 600 }
       IN Ok([v EXCEPT
                !.last_cache_check_time = time,
                !.tmpdir = @ \ Filenames(v.cache, keys),
                !.cache = [k \in DOMAIN v.cache \ keys |-> v.cache[k]]])

\* _clean_worker that joins the thread without having put the stop task.
_clean_worker_join_only(v) == v

\* VoiceDirection._clean_worker up to the join: put the stop task.
_clean_worker_put(v) == [v EXCEPT !.queue_tasks = Append(@, NoCmd)]

\* VoiceDirection._clean_worker after the join returned.
_clean_worker_joined(v) == _update_cache([v EXCEPT !.worker_thread = NoThread])

\* VoiceDirection._clean_cache
_clean_cache(v) ==
  [v EXCEPT !.tmpdir = @ \ Filenames(v.cache, DOMAIN v.cache),
            !.cache = EmptyDict]

\* clean that stops the worker and leaves the cache as it is.
clean_worker_only(r) == r

\* VoiceDirection.clean after _clean_worker ended with outcome r.
clean(r) ==
  IF r.exc THEN r
  ELSE Ok([_clean_cache(r.v) EXCEPT !.last_cache_check_time = 0])

\* The first engine in the order of preference that supports the language
\* (NoEngine when there is none).
FirstSupporting(language) ==
  IF \E e \in DOMAIN engines : supports(e, language)
  THEN CHOOSE e \in DOMAIN engines :
         /\ supports(e, language)
         /\ \A d \in DOMAIN engines : supports(d, language) => e <= d
  ELSE NoEngine

\* VoiceDirection.set_voice after its clean() ended with outcome r.
set_voice(r, language, sex) ==
  IF r.exc THEN r
  ELSE IF language = "None" THEN Ok([r.v EXCEPT !.engine = NoEngine])
  ELSE LET e == FirstSupporting(language)
       IN IF e = NoEngine THEN Ok([r.v EXCEPT !.engine = NoEngine])
          ELSE Ok([r.v EXCEPT !.engine = e,
                              !.voice_name[e] = _get_voice_name(e, language, sex)])

----------------------------------------------------------------------------
(* Geometry.  Coordinates are whole metres on a plane; the thresholds that  *)
(* the source gives in degrees are taken at 100 km to the degree.          *)

Sq(a) == a * a

Max(a, b) == IF a > b THEN a ELSE b

Min(a, b) == IF a < b THEN a ELSE b

\* The element of a Python list at a 0-based index.
At(list, i) == list[i + 1]

\* The largest r with r * r <= n, between lo and hi.
RECURSIVE ISqrtIn(_, _, _)
ISqrtIn(n, lo, hi) ==
  IF lo >= hi THEN lo
  ELSE LET mid == (lo + hi + 1) \div 2
       IN IF mid * mid <= n THEN ISqrtIn(n, mid, hi) ELSE ISqrtIn(n, lo, mid - 1)

ISqrt(n) == ISqrtIn(n, 0, Min(n, 46340))

\* poor.util.calculate_distance: metres between two points.
calculate_distance(x1, y1, x2, y2) == ISqrt(Sq(x2 - x1) + Sq(y2 - y1))

\* poor.polysimp.get_sq_seg_dist: squared distance from (x, y) to the
\* segment (x1, y1)-(x2, y2).
get_sq_seg_dist(x, y, x1, y1, x2, y2) ==
  LET dx == x2 - x1
      dy == y2 - y1
      dot == (x - x1) * dx + (y - y1) * dy
      cross == (x - x1) * dy - (y - y1) * dx
  IN IF (dx = 0 /\ dy = 0) \/ dot <= 0 THEN Sq(x - x1) + Sq(y - y1)
     ELSE IF dot > Sq(dx) + Sq(dy) THEN Sq(x - x2) + Sq(y - y2)
     ELSE IF dy = 0 THEN Sq(y - y1)
     ELSE IF dx = 0 THEN Sq(x - x1)
     ELSE Sq(cross) \div (Sq(dx) + Sq(dy))

\* poor.util.calculate_segment_distance: metres from (x, y) to the segment.
calculate_segment_distance(x, y, x1, y1, x2, y2) ==
  ISqrt(get_sq_seg_dist(x, y, x1, y1, x2, y2))

\* poor.util.find_closest: index of the point of xs, ys closest to (x, y),
\* the first one among equals.
find_closest(xs, ys, x, y) ==
  CHOOSE i \in 0..(Len(xs) - 1) :
    \A j \in 0..(Len(xs) - 1) :
      LET di == Sq(x - At(xs, i)) + Sq(y - At(ys, i))
          dj == Sq(x - At(xs, j)) + Sq(y - At(ys, j))
      IN di < dj \/ (di = dj /\ i <= j)

\* poor.util.round_distance: to two significant digits.
RECURSIVE round_distance(_)
round_distance(meters) ==
  IF meters < 100 THEN meters ELSE 10 * round_distance((meters + 5) \div 10)

----------------------------------------------------------------------------
(* Maneuver *)

\* None as a maneuver (an entry of Narrative.maneuver before set_maneuvers,
\* and Narrative.current_maneuver outside navigation).
NoManeuver ==
  [ duration |-> 0, length |-> 0, narrative |-> NoCmd,
    verbal_alert |-> NoCmd, verbal_pre |-> NoCmd, verbal_post |-> NoCmd,
    verbal_prompts_before |-> <<>>, node |-> -1, x |-> 0, y |-> 0 ]

\* class VerbalPrompt
VerbalPrompt(distance, prompt) == [distance |-> distance, prompt |-> prompt]

\* A phrase as a text.
Plain(phrase) == <<"", 0, phrase>>

\* __("In {distance}, {direction}", language).format(...): the text of an
\* alert, for the phrase of the text direction.
InDistance(distance, direction) == <<"In", distance, direction[3]>>

\* Maneuver.__init__ on an item of the router's maneuver list.
Maneuver(kwargs) ==
  [ duration |-> kwargs.duration, length |-> 0,
    narrative |-> Plain(kwargs.narrative),
    verbal_alert |-> Plain(kwargs.narrative),
    verbal_pre |-> Plain(kwargs.narrative),
    verbal_post |-> IF kwargs.verbal_post = "" THEN NoCmd
                    ELSE Plain(kwargs.verbal_post),
    verbal_prompts_before |-> <<>>, node |-> -1,
    x |-> kwargs.x, y |-> kwargs.y ]

\* Maneuver.is_same
is_same(self, maneuver) == maneuver.node = self.node

\* The times before the maneuver at which alerts are given.
AlertTimes(duration) ==
  IF duration > 1800 THEN <<30, 90>>
  ELSE IF duration > 600 THEN <<35>>
  ELSE IF duration > 60 THEN <<20>>
  ELSE <<>>

\* Maneuver.fill_verbal_prompts: speed is length / max(1, duration).
fill_verbal_prompts(self, length, duration) ==
  LET d == Max(1, duration)
      distance_pre == Max(50, (5 * length) \div d)
      times == AlertTimes(duration)
      pre == IF self.verbal_pre # NoCmd
             THEN << VerbalPrompt(distance_pre, self.verbal_pre) >>
             ELSE <<>>
      alerts == IF self.verbal_alert # NoCmd
                THEN [ k \in DOMAIN times |->
                         LET distance_alert ==
                               round_distance((times[k] * length) \div d)
                         IN VerbalPrompt(distance_alert,
                                         InDistance(distance_alert,
                                                    self.verbal_alert)) ]
                ELSE <<>>
  IN [self EXCEPT !.verbal_prompts_before = pre \o alerts]

----------------------------------------------------------------------------
(* Narrative *)

\* Thresholds of _get_closest_segment_node, in square metres.
eps1 == 25
eps2 == 400
eps3 == 250000

\* min_dist before the scan: more than any squared distance of the model.
FarAway == 2000000000

\* Narrative.__init__ without its voice_engine.
Narrative ==
  [ dist |-> <<>>, _last_node |-> 0, maneuver |-> <<>>, mode |-> "car",
    time |-> <<>>, x |-> <<>>, y |-> <<>>,
    current_maneuver |-> NoManeuver,
    navigation_active |-> FALSE, language |-> "en" ]

distance_route_too_far == 200

distance_route_too_far_for_direction == 50

distance_route_init_reroute == 100

\* The outcome of a call of Narrative: the two objects afterwards, the voice
\* to play, and whether the call ended by raising.
NOk(n, v) == [n |-> n, v |-> v, ret |-> NoFile, exc |-> FALSE]
NReturn(n, v, ret) == [n |-> n, v |-> v, ret |-> ret, exc |-> FALSE]
NRaise(n, v) == [n |-> n, v |-> v, ret |-> NoFile, exc |-> TRUE]

\* The outcome of a call of Narrative that ends with the outcome r of its
\* last call of VoiceDirection.
NOutcome(n, r) == [n |-> n, v |-> r.v, ret |-> r.ret, exc |-> r.exc]

\* Narrative.ready
ready(n) ==
  /\ n.x # <<>>
  /\ Len(n.x) = Len(n.y)
  /\ Len(n.y) = Len(n.dist)
  /\ Len(n.dist) = Len(n.time)
  /\ Len(n.time) = Len(n.maneuver)

\* A scan that stops at the first segment nearer than eps3.
RECURSIVE ScanSegmentsLoose(_, _, _, _, _, _)
ScanSegmentsLoose(n, x, y, order, k, m) ==
  IF k > Len(order) THEN m
  ELSE LET i == order[k]
           dist == get_sq_seg_dist(x, y, At(n.x, i), At(n.y, i),
                                   At(n.x, i + 1), At(n.y, i + 1))
           m2 == IF dist < m.dist THEN [node |-> i, dist |-> dist] ELSE m
       IN IF m2.dist < eps3 THEN m2
          ELSE ScanSegmentsLoose(n, x, y, order, k + 1, m2)

\* The scan of _get_closest_segment_node over the segments order[k..],
\* from the minimum m found so far.
RECURSIVE ScanSegments(_, _, _, _, _, _)
ScanSegments(n, x, y, order, k, m) ==
  IF k > Len(order) THEN m
  ELSE LET i == order[k]
           dist == get_sq_seg_dist(x, y, At(n.x, i), At(n.y, i),
                                   At(n.x, i + 1), At(n.y, i + 1))
           m2 == IF dist < m.dist THEN [node |-> i, dist |-> dist] ELSE m
       IN IF m2.dist < eps1 THEN m2
          ELSE IF m2.dist < eps2 /\ dist > eps3 THEN m2
          ELSE ScanSegments(n, x, y, order, k + 1, m2)

\* The segment that _get_closest_segment_node settles on (its min_node).
ClosestSegment(n, x, y) ==
  LET ahead == [k \in 1..Max(0, Len(n.x) - 1 - n._last_node) |->
                  n._last_node + k - 1]
      behind == [k \in 1..n._last_node |-> n._last_node - k]
      m0 == [node |-> 0, dist |-> FarAway]
  IN ScanSegments(n, x, y, behind, 1,
                  ScanSegments(n, x, y, ahead, 1, m0)).node

\* Narrative._get_closest_segment_node: the node returned, for min_node.
\* A route of one point has no node min_node + 1 (IndexError).
_get_closest_segment_node(n, x, y, min_node) ==
  LET a == min_node
      b == min_node + 1
      dist_a == Sq(x - At(n.x, a)) + Sq(y - At(n.y, a))
      dist_b == Sq(x - At(n.x, b)) + Sq(y - At(n.y, b))
  IN IF dist_a < dist_b THEN a ELSE b

\* Narrative._get_distances_from_route
_get_distances_from_route(n, x, y, node) ==
  (IF node > 0
   THEN << calculate_segment_distance(x, y, At(n.x, node - 1), At(n.y, node - 1),
                                      At(n.x, node), At(n.y, node)) >>
   ELSE <<>>)
  \o
  (IF node < Len(n.x) - 1
   THEN << calculate_segment_distance(x, y, At(n.x, node), At(n.y, node),
                                      At(n.x, node + 1), At(n.y, node + 1)) >>
   ELSE <<>>)

\* min of a list of one or two distances.
MinOf(dists) == IF Len(dists) = 2 THEN Min(dists[1], dists[2]) ELSE dists[1]

\* max of a non-empty list.
MaxOf(list) == CHOOSE m \in Range(list) : \A e \in Range(list) : e <= m

\* Narrative._get_display_maneuver: the node whose maneuver is shown.
DisplayManeuverNode(node, seg_dists) ==
  IF Len(seg_dists) = 2 /\ 2 * seg_dists[2] < seg_dists[1] /\ seg_dists[1] > 10
  THEN node + 1
  ELSE node

\* Narrative._get_display_maneuver: man_dist, for the maneuver of the node.
_get_display_maneuver(n, x, y, node, seg_dists) ==
  LET maneuver == At(n.maneuver, node)
      man_node == maneuver.node
      man_dist == MinOf(seg_dists) + At(n.dist, node) - At(n.dist, man_node)
  IN IF node = man_node \/ man_dist < 500
     THEN calculate_distance(x, y, maneuver.x, maneuver.y)
     ELSE man_dist

\* Narrative._get_display_destination: dest_dist.  It reads the maneuver of
\* the node when the destination is near.
NeedsManeuverOfNode(n, node, seg_dist) ==
  node = Len(n.x) - 1 \/ seg_dist + At(n.dist, node) < 500

\* The requests of _set_current_maneuver for one maneuver: make for each of
\* its prompts in turn, unless one raised.
RECURSIVE MakePrompts(_, _, _, _)
MakePrompts(r, prompts, k, time) ==
  IF r.exc \/ k > Len(prompts) THEN r
  ELSE MakePrompts(make(r.v, prompts[k].prompt, time), prompts, k + 1, time)

\* The request of _set_current_maneuver for the post voice of a maneuver,
\* once the requests for its prompts ended with outcome r.
MakePost(r, man, time) ==
  IF r.exc \/ man.verbal_post = NoCmd THEN r
  ELSE make(r.v, man.verbal_post, time)

RECURSIVE RequestVoices(_, _, _, _)

\* The end of pass i of the loop of _set_current_maneuver at the node, once
\* its requests ended with outcome r: on to the next maneuver of the route.
NextManeuver(n, r, node, i) ==
  IF r.exc THEN r
  ELSE IF Len(n.maneuver) > node + 1
  THEN IF At(n.maneuver, node + 1) = NoManeuver THEN Raise(r.v)
       ELSE RequestVoices(n, r, At(n.maneuver, node + 1).node, i + 1)
  ELSE r

\* The loop of _set_current_maneuver from its pass i, at the node.  A node
\* without a maneuver has no attributes to read (AttributeError).
RequestVoices(n, r, node, i) ==
  IF r.exc \/ i >= 3 THEN r
  ELSE LET time == At(n.time, node)
           man == At(n.maneuver, node)
       IN IF man = NoManeuver THEN Raise(r.v)
          ELSE NextManeuver(
                 n,
                 MakePost(MakePrompts(r, man.verbal_prompts_before, 1, time),
                          man, time),
                 node, i)

\* Narrative._set_current_maneuver
_set_current_maneuver(n, v, maneuver) ==
  LET n1 == [n EXCEPT !.current_maneuver = maneuver]
  IN IF ~active(v) THEN NOk(n1, v)
     ELSE IF maneuver = NoManeuver THEN NRaise(n1, v)
     ELSE NOutcome(n1, RequestVoices(n1, Ok(v), maneuver.node, 0))

\* The index of the first prompt with man_dist < distance + 10 (0: none).
FirstDue(prompts, man_dist) ==
  IF \E i \in DOMAIN prompts : man_dist < prompts[i].distance + 10
  THEN CHOOSE i \in DOMAIN prompts :
         /\ man_dist < prompts[i].distance + 10
         /\ \A j \in 1..(i - 1) : ~(man_dist < prompts[j].distance + 10)
  ELSE 0

\* The prompt due taken from a current maneuver that is the maneuver of the
\* table itself, not a copy of it: the prompts leave the table as well.
PromptDueOnTable(n, g, i) ==
  IF g.exc THEN NRaise(n, g.v)
  ELSE IF g.ret # NoFile
  THEN NReturn([n EXCEPT
                  !.current_maneuver.verbal_prompts_before = SubSeq(@, 1, i - 1),
                  !.maneuver = [j \in DOMAIN n.maneuver |->
                                  IF n.maneuver[j].node = n.current_maneuver.node
                                  THEN [n.maneuver[j] EXCEPT
                                          !.verbal_prompts_before =
                                             SubSeq(@, 1, i - 1)]
                                  ELSE n.maneuver[j]]],
               g.v, g.ret)
  ELSE NReturn(n, g.v, NoFile)

\* Narrative.get_display, voice directions support: the prompt at index i
\* of the queue is due and get() for its text ended with outcome g.
PromptDue(n, g, i) ==
  IF g.exc THEN NRaise(n, g.v)
  ELSE IF g.ret # NoFile
  THEN NReturn([n EXCEPT !.current_maneuver.verbal_prompts_before =
                           SubSeq(@, 1, i - 1)],
               g.v, g.ret)
  ELSE NReturn(n, g.v, NoFile)

\* Narrative.get_display, voice directions support, when the resolved
\* maneuver is the current one and i is the index of the first prompt due.
SameManeuverAt(n, v, node, i) ==
  IF i = 0 THEN NOk(n, set_time(v, At(n.time, node)).v)
  ELSE PromptDue(n, get(v, n.current_maneuver.verbal_prompts_before[i].prompt), i)

\* Narrative.get_display, voice directions support, when the resolved
\* maneuver is the current one.
SameManeuver(n, v, node, man_dist) ==
  SameManeuverAt(n, v, node,
                 FirstDue(n.current_maneuver.verbal_prompts_before, man_dist))

\* Whether the post voice of the current maneuver is asked for when the
\* maneuver changed to the given one.
PostVoiceDue(n, maneuver) ==
  /\ n.current_maneuver.verbal_post # NoCmd
  /\ n.current_maneuver.node + 1 < Len(n.maneuver)
  /\ is_same(At(n.maneuver, n.current_maneuver.node + 1), maneuver)

\* Narrative.get_display, voice directions support, when the maneuver
\* changed and the look-up of the post voice ended with outcome g.
PostVoice(n, maneuver, g) ==
  IF g.exc THEN NRaise(n, g.v)
  ELSE [_set_current_maneuver(n, g.v, maneuver) EXCEPT !.ret = g.ret]

\* Narrative.get_display, voice directions support, when the maneuver
\* changed.  The post voice is cleared on the maneuver being replaced.
ManeuverChanged(n, v, maneuver) ==
  IF /\ n.current_maneuver.verbal_post # NoCmd
     /\ n.current_maneuver.node + 1 < Len(n.maneuver)
     /\ At(n.maneuver, n.current_maneuver.node + 1) = NoManeuver
  THEN NRaise(n, v)
  ELSE PostVoice(n, maneuver,
                 IF PostVoiceDue(n, maneuver)
                 THEN get(v, n.current_maneuver.verbal_post)
                 ELSE Return(v, NoFile))

\* Narrative.get_display, voice directions support.
VoiceDirections(n, v, node, seg_dist, maneuver, man_dist) ==
  IF ~(/\ n.navigation_active
       /\ active(v)
       /\ seg_dist < distance_route_too_far_for_direction)
  THEN NOk(n, v)
  ELSE IF n.current_maneuver = NoManeuver
  THEN _set_current_maneuver(n, v, maneuver)
  ELSE IF is_same(n.current_maneuver, maneuver)
  THEN SameManeuver(n, v, node, man_dist)
  ELSE ManeuverChanged(n, v, maneuver)

\* accuracy=None: the fix comes without an accuracy.
NoAccuracy == -1

\* What get_display gave: nothing (None, or no return), or the display
\* record, of which reroute, whether a direction is given and whether the
\* narrative is.
NoDisplay ==
  [given |-> FALSE, reroute |-> FALSE, direction |-> FALSE,
   narrative |-> FALSE]

Display(reroute, direction, narrated) ==
  [given |-> TRUE, reroute |-> reroute, direction |-> direction,
   narrative |-> narrated]

\* The outcome r of a call of Narrative with the display record d it
\* returns unless it raised.
Shown(r, d) ==
  [n |-> r.n, v |-> r.v, ret |-> r.ret, exc |-> r.exc,
   display |-> IF r.exc THEN NoDisplay ELSE d]

\* accuracy or 0: no fallback for a fix without accuracy.
AccuracyOrZero(accuracy) == IF accuracy = NoAccuracy THEN 0 ELSE accuracy

\* accuracy or 40000000
AccuracyOr(accuracy) ==
  IF accuracy = NoAccuracy \/ accuracy = 0 THEN 40000000 ELSE accuracy

\* Narrative.get_display: reroute
Reroute(seg_dist, accuracy) ==
  seg_dist > distance_route_init_reroute + AccuracyOr(accuracy)

\* Narrative.get_display: whether direction is given
Direction(seg_dist) == seg_dist < distance_route_too_far_for_direction

\* Narrative.get_display: whether narrative is given
Narrated(seg_dist) == ~(seg_dist > distance_route_too_far)

\* Narrative._get_display_transit: no voice; the node hint moves.
_get_display_transit(n, v, x, y) ==
  IF Len(n.x) < 2 THEN NRaise([n EXCEPT !._last_node = 0], v)
  ELSE NOk([n EXCEPT !._last_node = ClosestSegment(n, x, y)], v)

\* Narrative.get_display: the node of the route closest to the fix.
MatchedNode(n, x, y) ==
  _get_closest_segment_node(n, x, y, ClosestSegment(n, x, y))

\* Narrative.get_display: seg_dists and seg_dist of the fix.
SegDists(n, x, y) == _get_distances_from_route(n, x, y, MatchedNode(n, x, y))

SegDist(n, x, y) == MinOf(SegDists(n, x, y))

\* Narrative.get_display: the node whose maneuver the fix resolves to.
ResolvedNode(n, x, y) ==
  DisplayManeuverNode(MatchedNode(n, x, y), SegDists(n, x, y))

\* Narrative.get_display: the maneuver the fix resolves to and man_dist.
ResolvedManeuver(n, x, y) == At(n.maneuver, ResolvedNode(n, x, y))

ResolvedManDist(n, x, y) ==
  _get_display_maneuver(n, x, y, ResolvedNode(n, x, y), SegDists(n, x, y))

\* Narrative.get_display reaches its voice directions support: the route
\* is ready with a maneuver at every node read, in a mode other than transit.
Displays(n, x, y) ==
  /\ ready(n)
  /\ n.mode # "transit"
  /\ Len(n.x) >= 2
  /\ ~(/\ NeedsManeuverOfNode(n, MatchedNode(n, x, y), SegDist(n, x, y))
       /\ At(n.maneuver, MatchedNode(n, x, y)) = NoManeuver)
  /\ MaxOf(n.time) # 0
  /\ ResolvedManeuver(n, x, y) # NoManeuver

\* Narrative.get_display from seg_dists, the distances of the fix to the
\* segments at the node, on.  It raises where it reads an attribute of a node
\* without a maneuver or divides by a total time of zero.
get_display_at(n, v, x, y, accuracy, node, seg_dists) ==
  LET seg_dist == MinOf(seg_dists)
      mnode == DisplayManeuverNode(node, seg_dists)
      maneuver == At(n.maneuver, mnode)
  IN Shown(IF /\ NeedsManeuverOfNode(n, node, seg_dist)
              /\ At(n.maneuver, node) = NoManeuver
           THEN NRaise(n, v)
           ELSE IF MaxOf(n.time) = 0 THEN NRaise(n, v)
           ELSE IF maneuver = NoManeuver THEN NRaise(n, v)
           ELSE VoiceDirections(n, v, node, seg_dist, maneuver,
                                _get_display_maneuver(n, x, y, mnode,
                                                      seg_dists)),
           Display(Reroute(seg_dist, accuracy), Direction(seg_dist),
                   Narrated(seg_dist)))

\* Narrative.get_display from the node closest to the fix on.
get_display_node(n, v, x, y, accuracy, node) ==
  get_display_at(n, v, x, y, accuracy, node,
                 _get_distances_from_route(n, x, y, node))

\* Narrative.get_display from the segment closest to the fix (min_node,
\* kept as the node hint) on.
get_display_segment(n, v, x, y, accuracy, min_node) ==
  get_display_node([n EXCEPT !._last_node = min_node], v, x, y, accuracy,
                   _get_closest_segment_node(n, x, y, min_node))

\* Narrative.get_display.  It indexes past a route of one point.
get_display(n, v, x, y, accuracy) ==
  IF ~ready(n) THEN Shown(NOk(n, v), NoDisplay)
  ELSE IF n.mode = "transit"
  THEN Shown(_get_display_transit(n, v, x, y),
             Display(FALSE, Direction(SegDist(n, x, y)), TRUE))
  ELSE IF Len(n.x) < 2
  THEN Shown(NRaise([n EXCEPT !._last_node = 0], v), NoDisplay)
  ELSE get_display_segment(n, v, x, y, accuracy, ClosestSegment(n, x, y))

\* A Python list without the element after a 0-based index.
DelNext(list, i) == SubSeq(list, 1, i + 1) \o SubSeq(list, i + 3, Len(list))

\* A Python list without the element at a 0-based index.
Del(list, i) == SubSeq(list, 1, i) \o SubSeq(list, i + 2, Len(list))

\* The loop of Narrative.set_route from index i down to 0.
RECURSIVE set_route_from(_, _)
set_route_from(n, i) ==
  IF i < 0 THEN n
  ELSE LET dist == calculate_distance(At(n.x, i), At(n.y, i),
                                      At(n.x, i + 1), At(n.y, i + 1))
       IN IF dist < 1
          THEN set_route_from([n EXCEPT !.x = Del(@, i), !.y = Del(@, i),
                                        !.dist = Del(@, i), !.time = Del(@, i),
                                        !.maneuver = Del(@, i)],
                              i - 1)
          ELSE set_route_from([n EXCEPT
                                 !.dist[i + 1] = At(n.dist, i + 1) + dist,
                                 !.time[i + 1] = At(n.time, i + 1)
                                                   + (dist * 3) \div 100],
                              i - 1)

\* Narrative.set_route
set_route(n, x, y) ==
  set_route_from([n EXCEPT !.x = x, !.y = y,
                           !.dist = [i \in DOMAIN x |-> 0],
                           !.time = [i \in DOMAIN x |-> 0],
                           !.maneuver = [i \in DOMAIN x |-> NoManeuver],
                           !._last_node = 0],
                 Len(x) - 2)

\* The times of the nodes of a leg, each added to the time the node had.
RECURSIVE LegTimesAdded(_, _, _, _)
LegTimesAdded(n, time, maneuver, j) ==
  IF j < maneuver.node THEN time
  ELSE LET dist == At(n.dist, j) - At(n.dist, j + 1)
       IN LegTimesAdded(n,
                        [time EXCEPT ![j + 1] =
                           At(time, j)
                             + (dist * Max(1, maneuver.duration)) \div maneuver.length],
                        maneuver, j - 1)

\* Narrative.set_maneuvers: the times of the nodes of the leg after the
\* maneuver, from node j down to the node of the maneuver.
RECURSIVE LegTimes(_, _, _, _)
LegTimes(n, time, maneuver, j) ==
  IF j < maneuver.node THEN time
  ELSE LET dist == At(n.dist, j) - At(n.dist, j + 1)
       IN LegTimes(n,
                   [time EXCEPT ![j + 1] =
                      At(time, j + 1)
                        + (dist * Max(1, maneuver.duration)) \div maneuver.length],
                   maneuver, j - 1)

\* Narrative.set_maneuvers: its first loop, from item i (1-based) down.
RECURSIVE AssignManeuvers(_, _, _, _)
AssignManeuvers(n, maneuvers, i, prev_maneuver) ==
  IF i = 0 THEN n
  ELSE IF maneuvers[i].passive
  THEN AssignManeuvers(n, maneuvers, i - 1, prev_maneuver)
  ELSE LET node == find_closest(n.x, n.y, maneuvers[i].x, maneuvers[i].y)
           length == IF prev_maneuver = NoManeuver THEN 0
                     ELSE At(n.dist, node) - At(n.dist, prev_maneuver.node)
           maneuver == [Maneuver(maneuvers[i]) EXCEPT !.node = node,
                                                      !.length = length]
           n1 == [n EXCEPT
                    !.maneuver = [j \in DOMAIN n.maneuver |->
                                    IF j - 1 <= node THEN maneuver
                                    ELSE n.maneuver[j]],
                    !.time = IF prev_maneuver = NoManeuver THEN @
                             ELSE LegTimes(n, @, maneuver,
                                           prev_maneuver.node - 1)]
       IN AssignManeuvers(n1, maneuvers, i - 1, maneuver)

\* Narrative.set_maneuvers: its second loop, at the node.  The maneuver
\* object is the one of every node that shows the same anchor.
RECURSIVE FillPrompts(_, _, _)
FillPrompts(n, node, prev_node) ==
  LET maneuver == At(n.maneuver, node)
      filled == IF node > 1
                THEN fill_verbal_prompts(maneuver,
                       At(n.dist, prev_node) - At(n.dist, node),
                       At(n.time, prev_node) - At(n.time, node))
                ELSE fill_verbal_prompts(maneuver, 0, 0)
      n1 == [n EXCEPT !.maneuver =
               [j \in DOMAIN n.maneuver |->
                  IF n.maneuver[j].node = maneuver.node /\ n.maneuver[j] # NoManeuver
                  THEN filled ELSE n.maneuver[j]]]
  IN IF maneuver = NoManeuver THEN [n |-> n, exc |-> TRUE]
     ELSE IF node + 1 < Len(n.maneuver)
     THEN IF At(n1.maneuver, node + 1) = NoManeuver
          THEN [n |-> n1, exc |-> TRUE]
          ELSE FillPrompts(n1, At(n1.maneuver, node + 1).node, node)
     ELSE [n |-> n1, exc |-> FALSE]

\* Narrative.set_maneuvers after its clean() returned.  On a route without
\* points the first maneuver finds no node to go to (IndexError).
set_maneuvers(n, maneuvers) ==
  IF Len(n.x) = 0
  THEN [n |-> n, exc |-> TRUE]
  ELSE FillPrompts(AssignManeuvers(n, maneuvers, Len(maneuvers), NoManeuver),
                   0, 0)

\* Narrative.unset
unset(n) ==
  [n EXCEPT !.dist = <<>>, !._last_node = 0, !.maneuver = <<>>,
            !.mode = "car", !.time = <<>>, !.x = <<>>, !.y = <<>>,
            !.current_maneuver = NoManeuver]

\* Narrative.begin
begin(n, v) ==
  LET n1 == [n EXCEPT !.current_maneuver = NoManeuver,
                      !.navigation_active = TRUE]
  IN IF Len(n.maneuver) = 0 THEN NRaise(n1, v)
     ELSE _set_current_maneuver(n1, v, At(n.maneuver, 0))

\* Narrative.end
end(n) ==
  [n EXCEPT !.current_maneuver = NoManeuver, !.navigation_active = FALSE]

----------------------------------------------------------------------------
(* Bookkeeping of the model *)

\* Tasks on the task queue or in the worker's hands.
PendingTasks(v) ==
  Len(SelectSeq(v.queue_tasks, LAMBDA c : c # NoCmd))
    + (IF v.worker_thread.pc = "make_wav" THEN 1 ELSE 0)

\* The node of the maneuver whose post voice a get_display on narrative n
\* with outcome r returned: a voice on a change of the current maneuver.
PostPlayed(n, r) ==
  IF /\ r.ret # NoFile
     /\ n.current_maneuver # NoManeuver
     /\ r.n.current_maneuver.node # n.current_maneuver.node
  THEN { n.current_maneuver.node }
  ELSE {}

\* The main thread between two calls.
Idle ==
  [pc |-> "idle", op |-> "", language |-> "None", sex |-> "male",
   maneuvers |-> <<>>]

\* The call the main thread completed last: what it returned (the file of a
\* voice, the display record) and whether it raised; for get_display, the
\* fix and the accuracy it was given; for set_time, the texts whose entries
\* it removed from the cache.  posts are the nodes of the maneuvers whose
\* post voice the get_display calls have returned since the last call of
\* another operation.
Called(op, ret, exc) ==
  [op |-> op, ret |-> ret, exc |-> exc, display |-> NoDisplay,
   accuracy |-> NoAccuracy, fix |-> <<>>, evicted |-> {}, posts |-> {}]

Init ==
  /\ narrative = Narrative
  /\ voice_engine = VoiceDirection
  /\ main = Idle
  /\ last = Called("__init__", NoFile, FALSE)
  /\ mktemp = 0
  /\ failures = 0

----------------------------------------------------------------------------
(* The worker thread: voice_worker *)

\* A worker that takes the task put last instead of the one put first.
WorkerGetLast ==
  /\ voice_engine.worker_thread.pc = "get"
  /\ voice_engine.queue_tasks # <<>>
  /\ LET cmd == voice_engine.queue_tasks[Len(voice_engine.queue_tasks)]
     IN voice_engine' =
          [voice_engine EXCEPT
             !.queue_tasks = SubSeq(@, 1, Len(@) - 1),
             !.worker_thread.pc = IF cmd = NoCmd THEN "done" ELSE "make_wav",
             !.worker_thread.cmd = cmd]
  /\ UNCHANGED <<narrative, main, last, mktemp, failures>>

\* cmd = queue_tasks.get(); if cmd is None: break
WorkerGet ==
  /\ voice_engine.worker_thread.pc = "get"
  /\ voice_engine.queue_tasks # <<>>
  /\ LET cmd == Head(voice_engine.queue_tasks)
     IN voice_engine' =
          [voice_engine EXCEPT
             !.queue_tasks = Tail(@),
             !.worker_thread.pc = IF cmd = NoCmd THEN "done" ELSE "make_wav",
             !.worker_thread.cmd = cmd]
  /\ UNCHANGED <<narrative, main, last, mktemp, failures>>

\* A worker that writes the file name into the cache entry of the text
\* itself instead of putting a result.
WorkerMakeWavToCache(ok, written) ==
  /\ voice_engine.worker_thread.pc = "make_wav"
  /\ ok => written
  /\ engines[voice_engine.worker_thread.engine].name = "espeak" => written
  /\ ~ok => failures < MaxFailures
  /\ failures' = IF ok THEN failures ELSE failures + 1
  /\ mktemp' = mktemp + 1
  /\ voice_engine' =
       [voice_engine EXCEPT
          !.tmpdir = IF written THEN @ \cup {mktemp'} ELSE @,
          !.cache = [k \in DOMAIN @ |->
                       IF k = voice_engine.worker_thread.cmd
                       THEN Voice(IF ok THEN mktemp' ELSE NoFile, @[k].time)
                       ELSE @[k]],
          !.worker_thread.pc = "get",
          !.worker_thread.cmd = NoCmd]
  /\ UNCHANGED <<narrative, main, last>>

\* fname = mktemp(); make_wav(cmd, fname); queue_results.put((cmd, fname)).
\* The backend succeeds (ok) or fails; written is whether it left a file,
\* which espeak's make_wav opens before it runs the backend.
WorkerMakeWav(ok, written) ==
  /\ voice_engine.worker_thread.pc = "make_wav"
  /\ ok => written
  /\ engines[voice_engine.worker_thread.engine].name = "espeak" => written
  /\ ~ok => failures < MaxFailures
  /\ failures' = IF ok THEN failures ELSE failures + 1
  /\ mktemp' = mktemp + 1
  /\ voice_engine' =
       [voice_engine EXCEPT
          !.tmpdir = IF written THEN @ \cup {mktemp'} ELSE @,
          !.queue_results =
             Append(@, <<voice_engine.worker_thread.cmd,
                         IF ok THEN mktemp' ELSE NoFile>>),
          !.worker_thread.pc = "get",
          !.worker_thread.cmd = NoCmd]
  /\ UNCHANGED <<narrative, main, last>>

----------------------------------------------------------------------------
(* The main thread calling VoiceDirection *)

Make(cmd, time) ==
  /\ main.pc = "idle"
  /\ \E r \in { make(voice_engine, cmd, time) } :
        /\ PendingTasks(r.v) + mktemp <= MaxTasks
        /\ voice_engine' = r.v
        /\ last' = Called("make", r.ret, r.exc)
  /\ UNCHANGED <<narrative, main, mktemp, failures>>

Get(cmd) ==
  /\ main.pc = "idle"
  /\ \E r \in { get(voice_engine, cmd) } :
        /\ voice_engine' = r.v
        /\ last' = Called("get", r.ret, r.exc)
  /\ UNCHANGED <<narrative, main, mktemp, failures>>

SetTime(time) ==
  /\ main.pc = "idle"
  /\ \E r \in { set_time(voice_engine, time) } :
        /\ voice_engine' = r.v
        /\ last' = [Called("set_time", r.ret, r.exc)
                      EXCEPT !.evicted = DOMAIN voice_engine.cache
                                           \ DOMAIN r.v.cache]
  /\ UNCHANGED <<narrative, main, mktemp, failures>>

\* The rest of a call of op once its _clean_worker ended with outcome r:
\* of clean, of set_voice, or of Narrative.set_maneuvers on narrative n.
AfterCleanWorker(op, n, r, language, sex, maneuvers) ==
  IF op = "clean" THEN [n |-> n, v |-> clean(r).v, exc |-> clean(r).exc]
  ELSE IF op = "set_voice"
  THEN LET s == set_voice(clean(r), language, sex)
       IN [n |-> n, v |-> s.v, exc |-> s.exc]
  ELSE LET c == clean(r)
           m == set_maneuvers(n, maneuvers)
       IN IF c.exc THEN [n |-> n, v |-> c.v, exc |-> TRUE]
          ELSE [n |-> m.n, v |-> c.v, exc |-> m.exc]

\* A call whose first step on the voice engine is _clean_worker, with n the
\* narrative at that step: without a worker thread the call runs to its
\* end, with one it puts the stop task and joins the thread.
CallCleaning(op, n, language, sex, maneuvers) ==
  /\ main.pc = "idle"
  /\ IF voice_engine.worker_thread = NoThread
     THEN \E r \in { AfterCleanWorker(op, n, Ok(voice_engine),
                                      language, sex, maneuvers) } :
             /\ voice_engine' = r.v
             /\ narrative' = r.n
             /\ last' = Called(op, NoFile, r.exc)
             /\ UNCHANGED main
     ELSE /\ voice_engine' = _clean_worker_put(voice_engine)
          /\ narrative' = n
          /\ main' = [pc |-> "join", op |-> op, language |-> language,
                      sex |-> sex, maneuvers |-> maneuvers]
          /\ UNCHANGED last
  /\ UNCHANGED <<mktemp, failures>>

Clean == CallCleaning("clean", narrative, "None", "male", <<>>)

SetVoice(language, sex) ==
  CallCleaning("set_voice", narrative, language, sex, <<>>)

\* worker_thread.join() returns once the thread has ended; the call goes on.
JoinReturns ==
  /\ main.pc = "join"
  /\ voice_engine.worker_thread.pc = "done"
  /\ \E r \in { AfterCleanWorker(main.op, narrative,
                                 _clean_worker_joined(voice_engine),
                                 main.language, main.sex, main.maneuvers) } :
        /\ voice_engine' = r.v
        /\ narrative' = r.n
        /\ last' = Called(main.op, NoFile, r.exc)
  /\ main' = Idle
  /\ UNCHANGED <<mktemp, failures>>

Next ==
  \/ \E cmd \in Texts, time \in Times : Make(cmd, time)
  \/ \E cmd \in Texts : Get(cmd)
  \/ \E time \in Times : SetTime(time)
  \/ Clean
  \/ \E language \in Languages, sex \in Sexes : SetVoice(language, sex)
  \/ JoinReturns
  \/ WorkerGet
  \/ \E ok \in BOOLEAN, written \in BOOLEAN : WorkerMakeWav(ok, written)

\* The synthesis pipeline under every use of VoiceDirection.
Spec == Init /\ [][Next]_vars

----------------------------------------------------------------------------
(* The main thread calling Narrative *)

\* The route of the router: four points on a line, in metres.
Routes == { [x |-> <<0, 700, 1400, 1500>>, y |-> <<0, 0, 0, 0>>] }

\* The maneuvers of the router for the route: the start, a turn after
\* 1400 m walked in 1400 s, and the destination 100 m and 50 s further.
ManeuverLists ==
  { << [x |-> 0, y |-> 0, duration |-> 1400, narrative |-> "a",
        verbal_post |-> "", passive |-> FALSE],
       [x |-> 1400, y |-> 0, duration |-> 50, narrative |-> "b",
        verbal_post |-> "p", passive |-> FALSE],
       [x |-> 1500, y |-> 0, duration |-> 0, narrative |-> "b",
        verbal_post |-> "", passive |-> FALSE] >> }

\* The position fixes, which come without accuracy: on the route at the
\* start, half way to the turn, 50 m before it and 15 m after it, and 60 m
\* beside the route.
Fixes == { <<0, 0>>, <<700, 0>>, <<1350, 0>>, <<1415, 0>>, <<700, 60>> }

\* Languages given to Narrative.set_voice.
NavLanguages == { "None", "en" }

\* Number of synthesis tasks ever put on the task queue through Narrative.
MaxNavTasks == 4

NavSetVoice(language, sex) ==
  CallCleaning("set_voice", [narrative EXCEPT !.language = language],
               language, sex, <<>>)

SetRoute(route) ==
  /\ main.pc = "idle"
  /\ narrative' = set_route(narrative, route.x, route.y)
  /\ last' = Called("set_route", NoFile, FALSE)
  /\ UNCHANGED <<voice_engine, main, mktemp, failures>>

SetManeuvers(maneuvers) ==
  CallCleaning("set_maneuvers",
               [narrative EXCEPT !.current_maneuver = NoManeuver],
               "None", "male", maneuvers)

Unset ==
  /\ main.pc = "idle"
  /\ narrative' = unset(narrative)
  /\ last' = Called("unset", NoFile, FALSE)
  /\ UNCHANGED <<voice_engine, main, mktemp, failures>>

Begin ==
  /\ main.pc = "idle"
  /\ \E r \in { begin(narrative, voice_engine) } :
        /\ PendingTasks(r.v) + mktemp <= MaxNavTasks
        /\ narrative' = r.n
        /\ voice_engine' = r.v
        /\ last' = Called("begin", r.ret, r.exc)
  /\ UNCHANGED <<main, mktemp, failures>>

End ==
  /\ main.pc = "idle"
  /\ narrative' = end(narrative)
  /\ last' = Called("end", NoFile, FALSE)
  /\ UNCHANGED <<voice_engine, main, mktemp, failures>>

\* Narrative.set_mode
SetMode(mode) ==
  /\ main.pc = "idle"
  /\ narrative' = [narrative EXCEPT !.mode = mode]
  /\ last' = Called("set_mode", NoFile, FALSE)
  /\ UNCHANGED <<voice_engine, main, mktemp, failures>>

GetDisplay(x, y, accuracy) ==
  /\ main.pc = "idle"
  /\ \E r \in { get_display(narrative, voice_engine, x, y, accuracy) } :
        /\ PendingTasks(r.v) + mktemp <= MaxNavTasks
        /\ narrative' = r.n
        /\ voice_engine' = r.v
        /\ last' = [Called("get_display", r.ret, r.exc)
                      EXCEPT !.display = r.display, !.accuracy = accuracy,
                             !.fix = <<x, y>>,
                             !.posts = (IF last.op = "get_display"
                                        THEN last.posts ELSE {})
                                         \cup PostPlayed(narrative, r)]
  /\ UNCHANGED <<main, mktemp, failures>>


NextNav ==
  \/ \E language \in NavLanguages, sex \in Sexes : NavSetVoice(language, sex)
  \/ \E route \in Routes : SetRoute(route)
  \/ \E maneuvers \in ManeuverLists : SetManeuvers(maneuvers)
  \/ Unset
  \/ Begin
  \/ End
  \/ \E fix \in Fixes : GetDisplay(fix[1], fix[2], NoAccuracy)
  \/ JoinReturns
  \/ WorkerGet
  \/ WorkerMakeWav(TRUE, TRUE)

\* Narrative and its voice engine under every use of Narrative, with a
\* backend that synthesizes every prompt.
SpecNav == Init /\ [][NextNav]_vars

----------------------------------------------------------------------------
(* Properties of the synthesis pipeline *)

\* Synthesis tasks for cmd that are on the task queue or in the worker's hands.
PendingFor(v, cmd) ==
  Len(SelectSeq(v.queue_tasks, LAMBDA c : c = cmd))
    + (IF v.worker_thread.pc = "make_wav" /\ v.worker_thread.cmd = cmd
       THEN 1 ELSE 0)

\* The texts with a pending synthesis task.
PendingTexts(v) ==
  (Range(v.queue_tasks) \ {NoCmd})
    \cup (IF v.worker_thread.pc = "make_wav" THEN {v.worker_thread.cmd} ELSE {})

\* C3: in every reachable state at most one synthesis task for any given
\* text is pending (on the task queue or being synthesized by the worker).
C3_OnePendingTaskPerText ==
  \A cmd \in PendingTexts(voice_engine) : PendingFor(voice_engine, cmd) <= 1

\* C4: a make(text, t) issued while the synthesis of that text, asked for by
\* an earlier make, has not completed causes no second backend invocation:
\* it puts no task for the text on the task queue.
C4_OneInvocationForTwoMakes ==
  [][\A cmd \in Texts, time \in Times :
       (Make(cmd, time) /\ PendingFor(voice_engine, cmd) > 0)
         => PendingFor(voice_engine', cmd) = PendingFor(voice_engine, cmd)]_vars

\* C5: get(text) moves every result of the result queue into the cache, then
\* returns the cached file name when the entry exists and its synthesis
\* succeeded and None otherwise; it returns in one step of the main thread.
C5_GetDrainsThenReturns ==
  [][\A cmd \in Texts :
       Get(cmd) =>
         /\ ~last'.exc
         /\ main'.pc = "idle"
         /\ voice_engine'.queue_results = <<>>
         /\ \A res \in Range(voice_engine.queue_results) :
              res[1] \in DOMAIN voice_engine'.cache
         /\ last'.ret = IF cmd \in DOMAIN voice_engine'.cache
                        THEN voice_engine'.cache[cmd].filename
                        ELSE NoFile]_vars

\* C6 as stated: the main thread never waits for a synthesis, so it is never
\* inside a call while a synthesis task is queued or in the worker's hands.
C6_MainNeverWaitsForSynthesis ==
  ~(main.pc = "join" /\ PendingTasks(voice_engine) > 0)

\* C6 as amended: the main thread waits only in the join of _clean_worker,
\* reached through clean, set_voice and set_maneuvers; while it waits the
\* stop task is the last task of the queue, behind every queued synthesis,
\* or the worker has taken it and ended.
C6_MainWaitsOnlyInJoin ==
  main.pc # "idle" =>
    /\ main.pc = "join"
    /\ main.op \in {"clean", "set_voice", "set_maneuvers"}
    /\ voice_engine.worker_thread # NoThread
    /\ IF voice_engine.worker_thread.pc = "done"
       THEN voice_engine.queue_tasks = <<>>
       ELSE /\ voice_engine.queue_tasks # <<>>
            /\ voice_engine.queue_tasks[Len(voice_engine.queue_tasks)] = NoCmd
            /\ Len(SelectSeq(voice_engine.queue_tasks, LAMBDA c : c = NoCmd)) = 1

\* C6 witness: the main thread is in join behind a synthesis in progress.
C6_Witness ==
  /\ main.pc = "join"
  /\ voice_engine.worker_thread.pc = "make_wav"
  /\ Len(voice_engine.queue_tasks) > 1

\* The synthesis of cmd has failed: its result with no file is on the result
\* queue, or is in the cache with nothing more to come for cmd.
FailureKnown(v, cmd) ==
  \/ <<cmd, NoFile>> \in Range(v.queue_results)
  \/ /\ cmd \in DOMAIN v.cache
     /\ v.cache[cmd].filename = NoFile
     /\ PendingFor(v, cmd) = 0
     /\ \A res \in Range(v.queue_results) : res[1] # cmd

\* C7: once the backend has failed on a text the failure stays: get(text)
\* returns None, make(text, t) queues no new task, neither raises, and the
\* failure is still known after the call.
C7_FailureIsPermanent ==
  [][\A cmd \in Texts :
       FailureKnown(voice_engine, cmd) =>
         /\ Get(cmd) =>
              /\ ~last'.exc
              /\ last'.ret = NoFile
              /\ FailureKnown(voice_engine', cmd)
         /\ \A time \in Times :
              Make(cmd, time) =>
                /\ ~last'.exc
                /\ PendingFor(voice_engine', cmd) = 0
                /\ FailureKnown(voice_engine', cmd)]_vars

\* C8: without a selected engine make(text, t) changes nothing (no worker,
\* no task, no cache entry) and get(text) returns None; neither raises.
C8_NoEngineNoOp ==
  [][voice_engine.engine = NoEngine =>
       /\ \A cmd \in Texts, time \in Times :
            Make(cmd, time) => (voice_engine' = voice_engine /\ ~last'.exc)
       /\ \A cmd \in Texts :
            Get(cmd) => (last'.ret = NoFile /\ ~last'.exc)]_vars

\* A step in which clean() returns to its caller.
CleanReturns ==
  /\ Clean \/ (JoinReturns /\ main.op = "clean")
  /\ main'.pc = "idle"
  /\ ~last'.exc

\* C9: right after clean() returned there is no worker thread, the cache is
\* empty, no file of a cache entry is left, and the result queue holds no
\* result that was not taken.
C9_CleanLeavesNothing ==
  [][CleanReturns =>
       /\ voice_engine'.worker_thread = NoThread
       /\ voice_engine'.cache = EmptyDict
       /\ voice_engine'.queue_results = <<>>]_vars

----------------------------------------------------------------------------
(* Properties of the prompt scheduler *)

\* get_display on the fix gives voice directions: navigation is active, an
\* engine is selected and the fix is within 50 m of the route.
GivesVoiceDirections(n, v, x, y) ==
  /\ Displays(n, x, y)
  /\ n.navigation_active
  /\ active(v)
  /\ SegDist(n, x, y) < distance_route_too_far_for_direction

\* The fix resolves to the current maneuver.
SameManeuverCase(n, v, x, y) ==
  /\ GivesVoiceDirections(n, v, x, y)
  /\ n.current_maneuver # NoManeuver
  /\ is_same(n.current_maneuver, ResolvedManeuver(n, x, y))

\* The fix resolves to a maneuver other than the current one.
ChangedCase(n, v, x, y) ==
  /\ GivesVoiceDirections(n, v, x, y)
  /\ n.current_maneuver # NoManeuver
  /\ ~is_same(n.current_maneuver, ResolvedManeuver(n, x, y))

\* C1: on a fix that resolves to the current maneuver, the first prompt of
\* the queue with man_dist < threshold + 10 is the one fetched; when its
\* fetch returns a file, that prompt and every prompt with a larger
\* threshold leave the queue and every prompt with a smaller threshold
\* stays; when the fetch returns None the queue is unchanged; when no prompt
\* passes the test there is no voice to play.
C1_FiredPromptLeavesSmallerThresholds ==
  [][\A fix \in Fixes :
       (/\ GetDisplay(fix[1], fix[2], NoAccuracy)
        /\ SameManeuverCase(narrative, voice_engine, fix[1], fix[2])
        /\ ~last'.exc)
         => LET prompts == narrative.current_maneuver.verbal_prompts_before
                i == FirstDue(prompts,
                              ResolvedManDist(narrative, fix[1], fix[2]))
                after == narrative'.current_maneuver.verbal_prompts_before
            IN IF i = 0 THEN last'.ret = NoFile /\ after = prompts
               ELSE IF last'.ret = NoFile THEN after = prompts
               ELSE /\ last'.ret =
                         voice_engine'.cache[prompts[i].prompt].filename
                    /\ after = SelectSeq(prompts,
                                 LAMBDA p : p.distance < prompts[i].distance)]_vars

\* The nodes at which the maneuvers of the table are anchored.
Anchors(n) == { n.maneuver[j].node : j \in DOMAIN n.maneuver } \ { -1 }

\* The maneuver is the next one in route order after the current maneuver.
IsNextInRouteOrder(n, maneuver) ==
  /\ maneuver.node > n.current_maneuver.node
  /\ \A a \in Anchors(n) :
       a > n.current_maneuver.node => maneuver.node <= a

\* C2: on a fix that resolves to a maneuver other than the current one, the
\* post voice of the current maneuver is returned only if it is still
\* pending and the new maneuver is the next one in route order; whether or
\* not it is, the call ends with the new maneuver as the current maneuver
\* and with each of its prompts requested from the voice engine.
C2_ManeuverChangeSnapshotsAndRequests ==
  [][\A fix \in Fixes :
       (/\ GetDisplay(fix[1], fix[2], NoAccuracy)
        /\ ChangedCase(narrative, voice_engine, fix[1], fix[2]))
         => LET maneuver == ResolvedManeuver(narrative, fix[1], fix[2])
                prompts == maneuver.verbal_prompts_before
            IN /\ last'.ret # NoFile =>
                    /\ narrative.current_maneuver.verbal_post # NoCmd
                    /\ IsNextInRouteOrder(narrative, maneuver)
               /\ ~last'.exc
               /\ narrative'.current_maneuver = maneuver
               /\ \A k \in DOMAIN prompts :
                    prompts[k].prompt \in DOMAIN voice_engine'.cache]_vars

\* The synthesis pipeline is torn down: no worker thread, no result left on
\* the result queue, an empty cache.
TornDown(v) ==
  /\ v.worker_thread = NoThread
  /\ v.queue_results = <<>>
  /\ v.cache = EmptyDict

\* A step in which Narrative.set_voice returns to its caller.
SetVoiceReturns ==
  /\ \/ \E language \in NavLanguages, sex \in Sexes :
          NavSetVoice(language, sex)
     \/ JoinReturns /\ main.op = "set_voice"
  /\ main'.pc = "idle"

\* C10: when set_voice or Narrative.unset returns the synthesis pipeline is
\* torn down, and a worker thread is started only by a make that puts a
\* task on the task queue.
C10_SetVoiceAndUnsetTearDown ==
  [][/\ (Unset \/ SetVoiceReturns) => TornDown(voice_engine')
     /\ (voice_engine.worker_thread = NoThread
           /\ voice_engine'.worker_thread # NoThread)
          => /\ voice_engine'.queue_tasks # <<>>
             /\ NoCmd \notin Range(voice_engine'.queue_tasks)]_vars

----------------------------------------------------------------------------
(* The route tables and the display record, without voice *)

\* Routes of the router: the line of the navigation scenario; a line with
\* its first and its last point doubled; one point given twice; a road
\* taken out and back 3 m beside itself.
TableRoutes ==
  { [x |-> <<0, 700, 1400, 1500>>, y |-> <<0, 0, 0, 0>>],
    [x |-> <<0, 0, 100, 100>>, y |-> <<0, 0, 0, 0>>],
    [x |-> <<0, 0>>, y |-> <<0, 0>>],
    [x |-> <<0, 600, 600, 0>>, y |-> <<0, 0, 3, 3>>] }

\* A maneuver of the router at a point, for the leg after it.
Item(x, y, duration, text) ==
  [x |-> x, y |-> y, duration |-> duration, narrative |-> text,
   verbal_post |-> "", passive |-> FALSE]

\* Maneuver lists of the router: from the start to the destination of the
\* line; from its second point to the destination; from the start to its
\* second point; from the start to the end of the route that turns back;
\* none; the first list with the leg to the turn taken in 140 s (10 m/s) and
\* in 2800 s (0.5 m/s).
TableManeuverLists ==
  { << Item(0, 0, 1400, "a"), Item(1400, 0, 50, "b"), Item(1500, 0, 0, "b") >>,
    << Item(700, 0, 1000, "a"), Item(1500, 0, 0, "b") >>,
    << Item(0, 0, 700, "a"), Item(700, 0, 0, "b") >>,
    << Item(0, 0, 600, "a"), Item(0, 3, 0, "b") >>,
    << >>,
    << Item(0, 0, 140, "a"), Item(1400, 0, 50, "b"), Item(1500, 0, 0, "b") >>,
    << Item(0, 0, 2800, "a"), Item(1400, 0, 50, "b"), Item(1500, 0, 0, "b") >> }

\* Position fixes: on the routes, and 3 m, 120 m, 150 m and 250 m beside.
TableFixes ==
  { <<0, 0>>, <<700, 0>>, <<200, 3>>, <<700, 120>>, <<700, 150>>,
    <<700, 250>> }

\* The accuracies that come with the fixes, in metres.
Accuracies == { NoAccuracy, 0, 30 }

NextTable ==
  \/ \E route \in TableRoutes : SetRoute(route)
  \/ \E maneuvers \in TableManeuverLists : SetManeuvers(maneuvers)
  \/ Unset
  \/ \E fix \in TableFixes, accuracy \in Accuracies :
       GetDisplay(fix[1], fix[2], accuracy)

\* Narrative under every use of its route tables, no voice selected.
SpecTable == Init /\ [][NextTable]_vars

----------------------------------------------------------------------------
(* Properties of the display record *)

C12_RerouteBeyondThresholdPlusAccuracy ==
  [][\A fix \in TableFixes, accuracy \in Accuracies \ {NoAccuracy} :
       (/\ GetDisplay(fix[1], fix[2], accuracy)
        /\ last'.display.given)
         => (last'.display.reroute
               <=> SegDist(narrative, fix[1], fix[2])
                     > distance_route_init_reroute + accuracy)]_vars

\* The route and maneuver tables are fully populated and consistent: a
\* route is set, the tables have its length, and every node has a maneuver.
Populated(n) ==
  /\ ready(n)
  /\ \A j \in DOMAIN n.maneuver : n.maneuver[j] # NoManeuver

\* C13: get_display in a state where the route and maneuver tables are not
\* fully populated and consistent (no route set, or a route set whose
\* maneuver entries are still empty) returns None and does not raise.  The
\* route of a single point is left to C14.
C13_NotReadyGivesNone ==
  [][\A fix \in TableFixes, accuracy \in Accuracies :
       (/\ GetDisplay(fix[1], fix[2], accuracy)
        /\ ~Populated(narrative)
        /\ Len(narrative.x) # 1)
         => /\ ~last'.exc
            /\ ~last'.display.given]_vars

\* C14: on a route that has fewer than two points after the removal of
\* near-duplicates, with its maneuvers set, get_display does not raise, and
\* the display record it gives has no direction.
C14_DegenerateRouteDoesNotRaise ==
  [][\A fix \in TableFixes, accuracy \in Accuracies :
       (/\ GetDisplay(fix[1], fix[2], accuracy)
        /\ Populated(narrative)
        /\ Len(narrative.x) < 2)
         => /\ ~last'.exc
            /\ last'.display.given => ~last'.display.direction]_vars

\* C15: after set_route the points that are kept are at least 1 m from the
\* next one, dist decreases strictly along the route and is zero at the last
\* index, and x, y, dist, time and maneuver have the same length.  set_route
\* is the only operation that writes x, y and dist of a route, so this is
\* stated of every state.
C15_RouteTablesAfterSetRoute ==
  /\ Len(narrative.y) = Len(narrative.x)
  /\ Len(narrative.dist) = Len(narrative.x)
  /\ Len(narrative.time) = Len(narrative.x)
  /\ Len(narrative.maneuver) = Len(narrative.x)
  /\ \A i \in 1..(Len(narrative.x) - 1) :
       /\ calculate_distance(narrative.x[i], narrative.y[i],
                             narrative.x[i + 1], narrative.y[i + 1]) >= 1
       /\ narrative.dist[i] > narrative.dist[i + 1]
  /\ Len(narrative.x) > 0 => narrative.dist[Len(narrative.x)] = 0

\* C15: set_route has returned a route of two points, which is what is left
\* of the route of four points with a repeated point at each end.
C15_Witness ==
  /\ last.op = "set_route"
  /\ ~last.exc
  /\ narrative.x = <<0, 100>>
  /\ narrative.dist = <<100, 0>>

\* The time left to the destination never rises along the route.
NonIncreasing(time) == \A i \in 1..(Len(time) - 1) : time[i] >= time[i + 1]

\* C16: after set_route and a set_maneuvers that returned, whatever the list
\* of maneuvers and wherever its first maneuver is anchored, the time array
\* is non-increasing.
C16_TimeNonIncreasingAfterSetManeuvers ==
  [][\A maneuvers \in TableManeuverLists :
       (SetManeuvers(maneuvers) /\ ~last'.exc)
         => NonIncreasing(narrative'.time)]_vars

\* The node (0-based) has a maneuver, anchored at that node or ahead of it.
GovernedAhead(n, i) ==
  /\ At(n.maneuver, i) # NoManeuver
  /\ At(n.maneuver, i).node >= i
  /\ At(n.dist, i) - At(n.dist, At(n.maneuver, i).node) >= 0

\* C17: after set_maneuvers on a route, every node of the route has a
\* maneuver anchored at or ahead of it, and the distance along the route from
\* the node to that anchor is not negative.
C17_EveryNodeGovernedAhead ==
  [][\A maneuvers \in TableManeuverLists :
       (SetManeuvers(maneuvers) /\ Len(narrative.x) > 0)
         => \A i \in 0..(Len(narrative'.x) - 1) :
              GovernedAhead(narrative', i)]_vars

\* The anchor node of the maneuver of every node, -1 where there is none.
AnchorNodes(n) == [j \in DOMAIN n.maneuver |-> n.maneuver[j].node]

SegSqDist(n, x, y, i) ==
  get_sq_seg_dist(x, y, At(n.x, i), At(n.y, i), At(n.x, i + 1), At(n.y, i + 1))

\* The segments of the route that a scan of all segments finds nearest.
NearestSegments(n, x, y) ==
  { i \in 0..(Len(n.x) - 2) :
      \A j \in 0..(Len(n.x) - 2) : SegSqDist(n, x, y, i) <= SegSqDist(n, x, y, j) }

\* The nodes such a scan may return: the nearer end of a nearest segment.
BruteForceNodes(n, x, y) ==
  { _get_closest_segment_node(n, x, y, i) : i \in NearestSegments(n, x, y) }

\* get_display reaches _get_closest_segment_node on a route with a segment.
Matches(n) == ready(n) /\ n.mode # "transit" /\ Len(n.x) >= 2

----------------------------------------------------------------------------
(* Properties of the choice of the engine *)

\* A step in which VoiceDirection.set_voice, called with the language,
\* returns without raising.
SetVoiceReturned(language) ==
  /\ \/ \E sex \in Sexes : SetVoice(language, sex)
     \/ JoinReturns /\ main.op = "set_voice" /\ main.language = language
  /\ main'.pc = "idle"
  /\ ~last'.exc

\* The language table of the engine has the language.
TableHas(e, language) == language \in DOMAIN engines[e].languages

\* The engine has a command on the device and the language in its table.
InstalledWith(e, language) ==
  engines[e].command \in Installed /\ TableHas(e, language)

----------------------------------------------------------------------------
(* The voice name of an engine, in voice.py and in voicecommand.py *)

\* The two modules that define VoiceEngineBase.
Variants == { "voice", "voicecommand" }

\* Languages and sexes given to the set_voice of an engine.
NameLanguages == { "en", "de", "fi" }
NameSexes == { "male", "female" }

\* VoiceEngineBase._get_voice_name of voicecommand.py: a.keys[0] subscripts
\* the method keys and raises TypeError where voice.py takes the first voice.
get_voice_name_raises(variant, e, language, sex) ==
  /\ variant = "voicecommand"
  /\ language \in DOMAIN engines[e].languages
  /\ sex \notin DOMAIN engines[e].languages[language]

\* VoiceEngineBase.set_voice of engine e: voice_name is assigned when
\* _get_voice_name has returned.
EngineSetVoice(variant, e, language, sex) ==
  /\ main.pc = "idle"
  /\ IF get_voice_name_raises(variant, e, language, sex)
     THEN /\ UNCHANGED voice_engine
          /\ last' = Called(variant, NoFile, TRUE)
     ELSE /\ voice_engine' =
               [voice_engine EXCEPT
                  !.voice_name[e] = _get_voice_name(e, language, sex)]
          /\ last' = Called(variant, NoFile, FALSE)
  /\ UNCHANGED <<narrative, main, mktemp, failures>>

NextNames ==
  \E variant \in Variants, e \in DOMAIN engines,
     language \in NameLanguages, sex \in NameSexes :
    EngineSetVoice(variant, e, language, sex)

SpecNames == Init /\ [][NextNames]_vars

\* C21: for an engine that has the language, in voice.py and in
\* voicecommand.py, set_voice does not raise; the voice name is the entry of
\* (language, sex) when the table has it, and otherwise a voice of the
\* language.
C21_VoiceNameExactOrFallback ==
  [][\A variant \in Variants, e \in DOMAIN engines,
        language \in NameLanguages, sex \in NameSexes :
       (EngineSetVoice(variant, e, language, sex)
          /\ language \in DOMAIN engines[e].languages)
         => /\ ~last'.exc
            /\ \E s \in DOMAIN engines[e].languages[language] :
                 voice_engine'.voice_name[e] = engines[e].languages[language][s]
            /\ sex \in DOMAIN engines[e].languages[language]
                 => voice_engine'.voice_name[e]
                      = engines[e].languages[language][sex]]_vars

----------------------------------------------------------------------------
(* The sweep of the cache at the boundary of 600 *)

\* The time to destination at which the prompts are wanted.
SweepMakeTimes == { 700 }

\* The times given to set_time: 601, 600 and 599 below the wanted time, and
\* one far enough from them for the next set_time to look at the cache.
SweepTimes == { 99, 100, 101, 1400 }

NextSweep ==
  \/ \E cmd \in Texts, time \in SweepMakeTimes : Make(cmd, time)
  \/ \E cmd \in Texts : Get(cmd)
  \/ \E time \in SweepTimes : SetTime(time)
  \/ SetVoice("en", "male")
  \/ JoinReturns
  \/ WorkerGet
  \/ \E ok \in BOOLEAN, written \in BOOLEAN : WorkerMakeWav(ok, written)

SpecSweep == Init /\ [][NextSweep]_vars

\* set_time looks at the cache: the time is 600 or more from the last check.
Sweeps(v, time) == Abs(time - v.last_cache_check_time) >= 600

\* C22: when set_time(now) looks at the cache, the entries wanted more than
\* 600 before now (601 and more) are removed from the cache, their files
\* from the directory; every other entry (600, 599 and less) stays as it is
\* with its file.
C22_EvictsBeyond600 ==
  [][\A time \in SweepTimes :
       (SetTime(time) /\ Sweeps(voice_engine, time))
         => \A k \in DOMAIN voice_engine.cache :
              IF voice_engine.cache[k].time - time >= 601
              THEN /\ k \notin DOMAIN voice_engine'.cache
                   /\ voice_engine.cache[k].filename \notin voice_engine'.tmpdir
              ELSE /\ k \in DOMAIN voice_engine'.cache
                   /\ voice_engine'.cache[k] = voice_engine.cache[k]
                   /\ voice_engine.cache[k].filename \in voice_engine.tmpdir
                        => voice_engine.cache[k].filename \in voice_engine'.tmpdir]_vars

\* C22: set_time(99) has removed the entry wanted at 700, 601 before the
\* time, and the one file ever synthesized, which was its file.
C22_Witness ==
  /\ last.op = "set_time"
  /\ last.evicted # {}
  /\ voice_engine.last_cache_check_time = 99
  /\ mktemp = 1
  /\ failures = 0
  /\ PendingTasks(voice_engine) = 0
  /\ voice_engine.tmpdir = {}

----------------------------------------------------------------------------
(* The prompts of a maneuver on a slow and on a fast leg *)

\* The maneuvers of the router for the line: the leg to the turn walked in
\* 1400 s (1 m/s), or driven in 140 s (10 m/s).
PromptManeuverLists ==
  { << Item(0, 0, 1400, "a"), Item(1400, 0, 50, "b"), Item(1500, 0, 0, "b") >>,
    << Item(0, 0, 140, "a"), Item(1400, 0, 50, "b"), Item(1500, 0, 0, "b") >> }

\* Fixes on the route: half way to the turn, 45 m before it and 30 m
\* before it.
PromptFixes == { <<700, 0>>, <<1355, 0>>, <<1370, 0>> }

NextPrompts ==
  \/ NavSetVoice("en", "male")
  \/ \E route \in Routes : SetRoute(route)
  \/ \E maneuvers \in PromptManeuverLists : SetManeuvers(maneuvers)
  \/ Begin
  \/ \E fix \in PromptFixes : GetDisplay(fix[1], fix[2], NoAccuracy)
  \/ JoinReturns
  \/ WorkerGet
  \/ WorkerMakeWav(TRUE, TRUE)

SpecPrompts == Init /\ [][NextPrompts]_vars

\* get(text) would return a file: the synthesis of the text has succeeded.
ArtifactReady(v, text) == get(v, text).ret # NoFile

\* C23: on a fix that resolves to the current maneuver, whose queue holds
\* two prompts with the larger threshold first, both due at the fix and both
\* synthesized, get_display returns the voice of the prompt with the smaller
\* threshold and leaves the queue without either prompt.
C23_SmallerThresholdFiresOnDescendingQueue ==
  [][\A fix \in PromptFixes :
       (/\ GetDisplay(fix[1], fix[2], NoAccuracy)
        /\ SameManeuverCase(narrative, voice_engine, fix[1], fix[2])
        /\ LET prompts == narrative.current_maneuver.verbal_prompts_before
           IN /\ Len(prompts) = 2
              /\ prompts[1].distance > prompts[2].distance
              /\ ResolvedManDist(narrative, fix[1], fix[2]) < prompts[2].distance
              /\ ArtifactReady(voice_engine, prompts[1].prompt)
              /\ ArtifactReady(voice_engine, prompts[2].prompt))
         => /\ last'.ret =
                 get(voice_engine,
                     narrative.current_maneuver.verbal_prompts_before[2].prompt).ret
            /\ narrative'.current_maneuver.verbal_prompts_before = <<>>]_vars

----------------------------------------------------------------------------
(* Properties of the current maneuver over a navigation *)

\* C24: after begin(), end() or unset() there is no current maneuver; the
\* first fix after begin() only makes the maneuver it resolves to the
\* current one, so it plays no voice: a post voice could only be that of a
\* maneuver that no fix has resolved to.
C24_NoCurrentManeuverAfterBeginEndUnset ==
  [][/\ (Begin \/ End \/ Unset) => narrative'.current_maneuver = NoManeuver
     /\ \A fix \in Fixes :
          (GetDisplay(fix[1], fix[2], NoAccuracy) /\ last.op = "begin")
            => last'.ret = NoFile]_vars

\* C25: over the get_display calls of a navigation, the post voice of a
\* maneuver is returned at most once: a call never returns the post voice of
\* a maneuver whose post voice an earlier call of the sequence has returned.
C25_PostVoiceAtMostOnce ==
  [][\A fix \in Fixes :
       (GetDisplay(fix[1], fix[2], NoAccuracy) /\ last.op = "get_display")
         => \A r \in { get_display(narrative, voice_engine,
                                   fix[1], fix[2], NoAccuracy) } :
              PostPlayed(narrative, r) \cap last.posts = {}]_vars

\* C26: a get_display call leaves the maneuver of every node of the route as
\* set_maneuvers built it, with its prompts and its post voice.
C26_GetDisplayLeavesManeuverTable ==
  [][\A fix \in PromptFixes :
       GetDisplay(fix[1], fix[2], NoAccuracy)
         => narrative'.maneuver = narrative.maneuver]_vars

\* C26: get_display has returned the voice of a prompt of the current
\* maneuver, whose queue is now shorter than that of the maneuver of the
\* same node in the table.
C26_Witness ==
  /\ last.op = "get_display"
  /\ last.ret # NoFile
  /\ last.posts = {}
  /\ narrative.current_maneuver # NoManeuver
  /\ Len(narrative.current_maneuver.verbal_prompts_before)
       < Len(At(narrative.maneuver,
                narrative.current_maneuver.node).verbal_prompts_before)

----------------------------------------------------------------------------
(* Properties of the prompt lists *)

\* The distances of the prompts never rise along the list.
Descending(prompts) ==
  \A i \in 1..(Len(prompts) - 1) : prompts[i].distance >= prompts[i + 1].distance

\* C27: whatever the length and the duration of the leg before a maneuver,
\* the prompt list that fill_verbal_prompts built for it is in descending
\* order of distance.
C27_PromptListsDescending ==
  \A j \in DOMAIN narrative.maneuver :
    Descending(narrative.maneuver[j].verbal_prompts_before)

----------------------------------------------------------------------------
(* Properties of the cache and of the worker thread *)

\* C28: a make that returns, with an engine selected, gives a text without
\* an entry an entry wanted at the time of the request; on a text with an
\* entry it lowers the wanted time to the earlier of the two and changes
\* nothing else: no task is put, the worker thread is the same, a file name
\* that the entry has stays, and the rest is as the results taken from the
\* result queue left it.
C28_MakeKeepsEarliestTime ==
  [][\A cmd \in Texts, time \in Times :
       (Make(cmd, time) /\ active(voice_engine) /\ ~last'.exc)
         => IF cmd \in DOMAIN voice_engine.cache
            THEN /\ voice_engine'.cache[cmd].time
                      = Min(voice_engine.cache[cmd].time, time)
                 /\ voice_engine'.queue_tasks = voice_engine.queue_tasks
                 /\ voice_engine'.worker_thread = voice_engine.worker_thread
                 /\ voice_engine.cache[cmd].filename # NoFile
                      => voice_engine'.cache[cmd].filename
                           = voice_engine.cache[cmd].filename
                 /\ \A u \in { _update_cache(voice_engine) } :
                      voice_engine' =
                        [u.v EXCEPT !.cache[cmd].time = voice_engine'.cache[cmd].time]
            ELSE voice_engine'.cache[cmd] = Voice(NoFile, time)]_vars

\* A step of voice_worker.
WorkerStep ==
  WorkerGet \/ \E ok \in BOOLEAN, written \in BOOLEAN : WorkerMakeWav(ok, written)

\* C29: a step of the worker thread leaves the cache as it is, entries, file
\* names and wanted times; it takes the first task from the task queue or
\* puts one result for the task it holds on the result queue.
C29_WorkerLeavesCache ==
  [][WorkerStep
       => /\ voice_engine'.cache = voice_engine.cache
          /\ \/ /\ voice_engine.queue_tasks # <<>>
                /\ voice_engine'.queue_tasks = Tail(voice_engine.queue_tasks)
                /\ voice_engine'.queue_results = voice_engine.queue_results
             \/ /\ voice_engine'.queue_tasks = voice_engine.queue_tasks
                /\ Len(voice_engine'.queue_results)
                     = Len(voice_engine.queue_results) + 1
                /\ voice_engine'.queue_results[Len(voice_engine'.queue_results)][1]
                     = voice_engine.worker_thread.cmd]_vars

\* C29: the worker has synthesized a text and put its result, and the cache
\* entry of the text is still without a file name.
C29_Witness ==
  /\ voice_engine.queue_results # <<>>
  /\ \E i \in DOMAIN voice_engine.queue_results :
       /\ voice_engine.queue_results[i][2] # NoFile
       /\ voice_engine.queue_results[i][1] \in DOMAIN voice_engine.cache
       /\ voice_engine.cache[voice_engine.queue_results[i][1]].filename = NoFile

\* The pipeline with a worker thread that is scheduled again and again and
\* a backend that returns from every call.
\* make with the voice set, get, clean and the steps of the worker thread.
NextFair ==
  \/ \E cmd \in Texts : Make(cmd, 0)
  \/ \E cmd \in Texts : Get(cmd)
  \/ Clean
  \/ SetVoice("en", "male")
  \/ JoinReturns
  \/ WorkerGet
  \/ \E ok \in BOOLEAN, written \in BOOLEAN : WorkerMakeWav(ok, written)

SpecFair ==
  /\ Init
  /\ [][NextFair]_vars
  /\ WF_vars(WorkerGet)
  /\ WF_vars(\E ok \in BOOLEAN, written \in BOOLEAN : WorkerMakeWav(ok, written))

\* The texts that have a result on the result queue.
ResultTexts(v) == { v.queue_results[i][1] : i \in DOMAIN v.queue_results }

\* C30: with a fair worker and a backend that returns, a task on the task
\* queue leads to a result for its text on the result queue, and each
\* synthesis puts one result; the stop task leads to the end of the worker,
\* which takes it only when no task is left and none is in its hands.
C30_TasksProduceResultsThenWorkerStops ==
  /\ \A cmd \in Texts :
       (cmd \in Range(voice_engine.queue_tasks))
         ~> (cmd \in ResultTexts(voice_engine))
  /\ (NoCmd \in Range(voice_engine.queue_tasks))
       ~> (voice_engine.worker_thread.pc = "done")
  /\ [][/\ (\E ok \in BOOLEAN, written \in BOOLEAN : WorkerMakeWav(ok, written))
             => voice_engine'.queue_results
                  \in { Append(voice_engine.queue_results,
                               <<voice_engine.worker_thread.cmd, f>>) :
                          f \in { NoFile, mktemp' } }
        /\ (WorkerGet /\ voice_engine'.worker_thread.pc = "done")
             => /\ Head(voice_engine.queue_tasks) = NoCmd
                /\ voice_engine'.queue_tasks = <<>>
                /\ PendingTasks(voice_engine') = 0]_vars

\* C30: the worker has put the results of two tasks and has then taken the
\* stop task.
C30_Witness ==
  /\ voice_engine.worker_thread.pc = "done"
  /\ Len(voice_engine.queue_results) = 2
  /\ voice_engine.queue_tasks = <<>>

----------------------------------------------------------------------------
(* Properties of the pipeline over every use *)

\* C31: a call of make or get, and the end of _clean_worker in clean or
\* set_voice, takes the results from the result queue without raising: each
\* result finds the cache entry of its text.
C31_DrainingNeverFails ==
  [][((\E cmd \in Texts, time \in Times : Make(cmd, time))
        \/ (\E cmd \in Texts : Get(cmd))
        \/ JoinReturns)
       => /\ ResultTexts(voice_engine) \subseteq DOMAIN voice_engine.cache
          /\ ~last'.exc]_vars

\* The thread runs voice_worker: it has been started and has not ended.
Alive(thread) == thread.pc \in {"get", "make_wav"}

\* C32: the main thread puts a new thread into worker_thread only when
\* there is none, and takes the thread out of it only when the thread has
\* ended; so no thread that is alive is ever left behind by the pipeline,
\* and at most one is alive.
C32_AtMostOneWorkerAlive ==
  [][(voice_engine'.worker_thread # voice_engine.worker_thread /\ ~WorkerStep)
       => \/ /\ voice_engine.worker_thread = NoThread
             /\ voice_engine'.worker_thread = Thread(voice_engine.engine)
             /\ last'.op = "make"
          \/ /\ ~Alive(voice_engine.worker_thread)
             /\ voice_engine'.worker_thread = NoThread
             /\ last'.op \in {"clean", "set_voice"}]_vars

\* C32: make has started a worker thread after the thread that made the
\* first file was stopped and forgotten by clean, which removed the file.
C32_Witness ==
  /\ last.op = "make"
  /\ voice_engine.worker_thread = Thread(voice_engine.engine)
  /\ Len(voice_engine.queue_tasks) = 1
  /\ voice_engine.queue_results = <<>>
  /\ mktemp = 1
  /\ failures = 0
  /\ voice_engine.tmpdir = {}
  /\ voice_engine.last_cache_check_time = 0
  /\ Cardinality(DOMAIN voice_engine.cache) = 1

\* C33: every file of the temporary directory is named by a cache entry or
\* by a result on the result queue, and when clean() has returned the
\* directory holds no file.
C33_NoOrphanedArtifact ==
  /\ voice_engine.tmpdir
       \subseteq Filenames(voice_engine.cache, DOMAIN voice_engine.cache)
                   \cup { voice_engine.queue_results[i][2] :
                            i \in DOMAIN voice_engine.queue_results }
  /\ (last.op = "clean" /\ ~last.exc) => voice_engine.tmpdir = {}

----------------------------------------------------------------------------
(* Properties of get_display without voice directions *)

\* Narrative in the modes car and transit, with a voice selected or not,
\* before, during and after a navigation; the fixes are on the route half
\* way to the turn and 50 m before it, and 60 m beside the route.
NextModes ==
  \/ NavSetVoice("en", "male")
  \/ \E route \in Routes : SetRoute(route)
  \/ \E maneuvers \in ManeuverLists : SetManeuvers(maneuvers)
  \/ \E mode \in {"car", "transit"} : SetMode(mode)
  \/ Begin
  \/ End
  \/ \E fix \in { <<700, 0>>, <<1350, 0>>, <<700, 60>> } :
       GetDisplay(fix[1], fix[2], NoAccuracy)
  \/ JoinReturns
  \/ WorkerGet
  \/ WorkerMakeWav(TRUE, TRUE)

SpecModes == Init /\ [][NextModes]_vars

----------------------------------------------------------------------------
(* Properties of the selected engine and voice *)

\* C35: the selected engine and the voice names change only in a step
\* before which no worker is alive and no task is pending and after which
\* there is no worker thread and the cache is empty; the cache gets its
\* first entry after that only when make starts a worker thread with a new,
\* empty result queue, and a worker thread runs the selected engine.  So
\* what is in the cache after set_voice comes from the engine and voice it
\* selected.
C35_NoStaleEngineOrVoice ==
  [][/\ (\/ voice_engine'.engine # voice_engine.engine
         \/ voice_engine'.voice_name # voice_engine.voice_name)
          => /\ ~Alive(voice_engine.worker_thread)
             /\ PendingTasks(voice_engine) = 0
             /\ voice_engine'.worker_thread = NoThread
             /\ voice_engine'.cache = EmptyDict
             /\ last'.op = "set_voice"
     /\ (voice_engine.worker_thread = NoThread
           /\ voice_engine.cache = EmptyDict
           /\ voice_engine'.cache # EmptyDict)
          => /\ voice_engine'.worker_thread = Thread(voice_engine.engine)
             /\ voice_engine'.queue_results = <<>>
             /\ Filenames(voice_engine'.cache, DOMAIN voice_engine'.cache) = {}
     /\ voice_engine'.worker_thread # NoThread
          => voice_engine'.worker_thread.engine = voice_engine'.engine]_vars

\* C35: set_voice has unselected the engine that had synthesized two texts:
\* the worker thread is gone, the cache is empty and the files are removed.
C35_Witness ==
  /\ last.op = "set_voice"
  /\ ~last.exc
  /\ voice_engine.engine = NoEngine
  /\ mktemp = 2
  /\ failures = 0
  /\ voice_engine.worker_thread = NoThread
  /\ voice_engine.cache = EmptyDict
  /\ voice_engine.tmpdir = {}

====
